---- MODULE Spec2Model ----
(***************************************************************************)
(* Model of CryptoPaymentsAPI.py: the per-user transaction monitor         *)
(* (CryptoPaymentsAPI.monitorTransactions / stop_monitoring), the          *)
(* transaction source wrapper (scanAPI.getTonLastTransactions) and the     *)
(* amount normaliser (scanAPI.convert_amount).                             *)
(*                                                                         *)
(* The program runs on one asyncio event loop, so a coroutine runs without *)
(* interruption from one await to the next.  monitorTransactions has two   *)
(* await points: the fetch (line 327) and the sleep (line 331).  Each      *)
(* action below is the code that runs between two consecutive awaits.      *)
(***************************************************************************)
EXTENDS Integers, Sequences, FiniteSets, TLC

VARIABLES stop_events, task, last, call

vars == <<stop_events, task, last, call>>

(***************************************************************************)
(* Bounds of the model.                                                    *)
(***************************************************************************)
MaxBudget == 3      \* timeInterval ranges over -1 .. MaxBudget
MaxPoll == 2        \* checkTime ranges over 0 .. MaxPoll
MaxPage == 1        \* a response carries at most MaxPage transactions
MaxRecords == 2     \* as MaxPage, for the direct calls of the source wrapper

MaxCycles == MaxBudget + 2   \* the cycle counters saturate here (checkTime = 0)

None == "None"               \* Python's None

Users == {"A", "B"}
Tasks == {"t1", "t2"}        \* concurrent calls of monitorTransactions
Blockchains == {"ton", "btc"}
Amounts == {"1", "1.0"}      \* expected amounts handed to the monitor
Memos == {None, "x"}
TimeIntervals == (-1) .. MaxBudget
CheckTimes == 0 .. MaxPoll

(***************************************************************************)
(* scanAPI.convert_amount                                                  *)
(***************************************************************************)
\* the outcome of a call: a returned value or a raised exception
Return(v) == [raised |-> None, value |-> v]
Raise(e) == [raised |-> e, value |-> None]

\* str.lower() on the ledger identifiers the model passes around
lower(s) ==
    CASE s = "TON" -> "ton"
      [] s = "Ton" -> "ton"
      [] s = "BTC" -> "btc"
      [] s = "Eth" -> "eth"
      [] s = "SOL" -> "sol"
      [] s = "Doge" -> "doge"
      [] s = "XRP" -> "xrp"
      [] OTHER -> s

decimals_map ==
    [b \in {"btc", "eth", "bnb", "sol", "ltc", "matic", "ton", "doge"} |->
        CASE b = "btc" -> 8
          [] b = "eth" -> 18
          [] b = "bnb" -> 18
          [] b = "sol" -> 9
          [] b = "ltc" -> 8
          [] b = "matic" -> 18
          [] b = "ton" -> 9
          [] b = "doge" -> 8]

\* amount // 10**k, digit by digit (10**18 does not fit the checker's integers)
RECURSIVE IntegerPart(_, _)
IntegerPart(amount, k) ==
    IF k = 0 THEN amount ELSE IntegerPart(amount \div 10, k - 1)

\* the k low-order decimal digits of amount, zero-padded on the left
RECURSIVE LowDigits(_, _)
LowDigits(amount, k) ==
    IF k = 0 THEN "" ELSE LowDigits(amount \div 10, k - 1) \o ToString(amount % 10)

\* the fractional digits of f"{x:.{decimals}f}" after .rstrip('0')
RECURSIVE FractionDigits(_, _)
FractionDigits(amount, k) ==
    IF k = 0 THEN ""
    ELSE IF amount % 10 = 0 THEN FractionDigits(amount \div 10, k - 1)
    ELSE LowDigits(amount, k)

\* a normaliser that tests for zero before it looks the ledger up
convert_amount_ZeroFirst(amount, blockchain) ==
    IF amount = 0 THEN Return("0")
    ELSE IF lower(blockchain) \notin DOMAIN decimals_map
         THEN Raise("ValueError")
    ELSE LET decimals == decimals_map[lower(blockchain)]
             digits == FractionDigits(amount, decimals)
         IN  IF digits = "" THEN Return(ToString(IntegerPart(amount, decimals)))
             ELSE Return(ToString(IntegerPart(amount, decimals)) \o "." \o digits)

\* amount / 10**decimals is exact to `decimals` places for the amounts of
\* the model (fewer than 16 significant digits), so the formatted string is
\* the exact decimal expansion
convert_amount(amount, blockchain) ==
    IF lower(blockchain) \notin DOMAIN decimals_map THEN Raise("ValueError")
    ELSE IF amount = 0 THEN Return("0")
    ELSE LET decimals == decimals_map[lower(blockchain)]
             digits == FractionDigits(amount, decimals)
         IN  IF digits = "" THEN Return(ToString(IntegerPart(amount, decimals)))
             ELSE Return(ToString(IntegerPart(amount, decimals)) \o "." \o digits)

(***************************************************************************)
(* scanAPI.getTonLastTransactions                                          *)
(*                                                                         *)
(* A response of the transaction source is [status, transactions,          *)
(* address_book]: status "ok", or the exception the request raises;        *)
(* transactions the raw records [hash, now, source, value, comment,        *)
(* success, missing], where missing names the key the record lacks ("none" *)
(* when it is complete) and comment is None when the message has no        *)
(* decoded comment; address_book maps raw addresses to their user-friendly *)
(* form (None when the entry has no 'user_friendly').                      *)
(***************************************************************************)
Statuses == {"ok", "ClientResponseError", "ClientError", "Exception"}

\* keys read outside the inner try (line 242), or whose absence raises
\* something other than KeyError (int(None), line 253)
AbortingKeys == {"in_msg", "message_content", "value"}
\* keys read inside the inner try (lines 250-252): KeyError, record skipped
SkippedKeys == {"hash", "now", "description", "compute_ph"}

\* lines 237-238: addresses[usrf] = ...get('user_friendly', "Unknown")
AddressesOf(address_book) ==
    [usrf \in DOMAIN address_book |->
        IF address_book[usrf] = None THEN "Unknown" ELSE address_book[usrf]]

\* lines 247-256: one entry of info
InfoOf(trx, addresses) ==
    [address |-> IF trx.source \in DOMAIN addresses
                 THEN addresses[trx.source] ELSE "Unknown address",
     hash |-> trx.hash,
     time |-> trx.now,
     success |-> trx.success,
     amount |-> convert_amount(trx.value, "ton").value,
     memo |-> trx.comment]

\* a source wrapper that lets a failed request propagate
getTonLastTransactions_Raising(response) ==
    IF response.status # "ok" THEN Raise(response.status)
    ELSE LET kept == SelectSeq(response.transactions,
                               LAMBDA trx : trx.missing \notin SkippedKeys)
             addresses == AddressesOf(response.address_book)
         IN  Return([k \in 1 .. Len(kept) |-> InfoOf(kept[k], addresses)])

getTonLastTransactions(response) ==
    IF response.status # "ok" THEN Return(<<>>)
    ELSE IF \E k \in 1 .. Len(response.transactions) :
                response.transactions[k].missing \in AbortingKeys
         THEN Return(<<>>)
    ELSE LET kept == SelectSeq(response.transactions,
                               LAMBDA trx : trx.missing \notin SkippedKeys)
             addresses == AddressesOf(response.address_book)
         IN  Return([k \in 1 .. Len(kept) |-> InfoOf(kept[k], addresses)])

(***************************************************************************)
(* The responses the transaction source gives in the model.                *)
(***************************************************************************)
RawValues == {1000000000, 1500000000}      \* "1" and "1.5" TON
\* the complete records, and one record that lacks its 'hash'
RawTrxs ==
    [hash : {"h1"}, now : {1617181723}, source : {"0:ab"},
     value : RawValues, comment : Memos, success : {TRUE},
     missing : {"none"}]
        \cup [hash : {"h1"}, now : {1617181723}, source : {"0:ab"},
              value : {1000000000}, comment : {None}, success : {TRUE},
              missing : {"hash"}]
AddressBooks == {[a \in {"0:ab"} |-> "EQab"]}

RECURSIVE SeqsUpTo(_, _)
SeqsUpTo(S, n) ==
    IF n = 0 THEN {<<>>}
    ELSE LET shorter == SeqsUpTo(S, n - 1)
         IN  shorter \cup {Append(q, x) : q \in shorter, x \in S}

Responses ==
    [status : {"ok"}, transactions : SeqsUpTo(RawTrxs, MaxPage),
     address_book : AddressBooks]
        \cup [status : Statuses \ {"ok"}, transactions : {<<>>},
              address_book : {<<>>}]

(***************************************************************************)
(* CryptoPaymentsAPI: the registry stop_events and monitorTransactions     *)
(*                                                                         *)
(* stop_events is the defaultdict(asyncio.Event): a function from the keys *)
(* referenced so far to the flag of their event.  task[t] holds the        *)
(* arguments and locals of one call of monitorTransactions, the await it   *)
(* is suspended at (pc) and how it ended (result, state).  The remaining   *)
(* fields record its history and are read by no action: fetches and sleeps *)
(* count its awaits, failed tells whether one of its fetches failed, prior *)
(* is the flag line 320 found, stopped tells whether stop_monitoring was   *)
(* called for its user while it was running, and stopReq is the await it   *)
(* was suspended at when the flag it will read next was set ("none" while  *)
(* that flag is clear).  last names the step taken last and, for a start   *)
(* or a stop, the flag the step found.  call holds the arguments and the   *)
(* result of the last direct call of one of the stateless methods.         *)
(***************************************************************************)
Min(a, b) == IF a < b THEN a ELSE b

\* a stop that sets every event of the registry
SetEvent_All(events, user_id) ==
    [u \in DOMAIN events \cup {user_id} |-> TRUE]

\* a stop that flips the event instead of setting it
SetEvent_Toggle(events, user_id) ==
    [u \in DOMAIN events \cup {user_id} |->
        IF u # user_id THEN events[u]
        ELSE IF u \in DOMAIN events THEN ~events[u] ELSE TRUE]

\* a stop that ignores a user the registry does not know yet
SetEvent_KnownOnly(events, user_id) ==
    [u \in DOMAIN events |-> IF u = user_id THEN TRUE ELSE events[u]]

\* self.stop_events[user_id].set()
SetEvent(events, user_id) ==
    [u \in DOMAIN events \cup {user_id} |->
        IF u = user_id THEN TRUE ELSE events[u]]

\* a start that creates a missing event and leaves an existing one alone
ClearEvent_Keep(events, user_id) ==
    [u \in DOMAIN events \cup {user_id} |->
        IF u \in DOMAIN events THEN events[u] ELSE FALSE]

\* self.stop_events[user_id].clear()
ClearEvent(events, user_id) ==
    [u \in DOMAIN events \cup {user_id} |->
        IF u = user_id THEN FALSE ELSE events[u]]

\* self.stop_events[user_id].is_set(), after line 320 created the entry
IsSet(events, user_id) == events[user_id]

\* the flag of user_id's event, or "absent" before its first reference
Flag(events, user_id) ==
    IF user_id \notin DOMAIN events THEN "absent"
    ELSE IF events[user_id] THEN "set" ELSE "clear"

IdleTask ==
    [pc |-> "idle", user_id |-> None, blockchain |-> None, amount |-> None,
     memo |-> None, timeInterval |-> 0, checkTime |-> 0, i |-> 0,
     transactions |-> <<>>, result |-> None, state |-> "IDLE",
     fetches |-> 0, sleeps |-> 0, failed |-> FALSE, prior |-> "idle",
     stopped |-> FALSE, stopReq |-> "none"]

Finish(t, result, state) ==
    [t EXCEPT !.pc = "done", !.result = result, !.state = state]

\* a match predicate that forgets the memo
Matches_AmountOnly(trx, amount, memo) ==
    trx.amount = amount

\* a match predicate that wants a successful transaction
Matches_Successful(trx, amount, memo) ==
    trx.success /\ trx.amount = amount /\ (memo = None \/ trx.memo = memo)

\* trx['amount'] == amount and (memo is None or trx['memo'] == memo)
Matches(trx, amount, memo) ==
    trx.amount = amount /\ (memo = None \/ trx.memo = memo)

\* a loop that never looks at the stop event
LoopTop_NoStopCheck(t, events) ==
    IF t.i <= t.timeInterval
    THEN IF t.blockchain = "ton"
         THEN [t EXCEPT !.pc = "fetch", !.fetches = Min(@ + 1, MaxCycles)]
         ELSE Finish(t, "ValueError", "RAISED")
    ELSE Finish(t, "False", "EXPIRED")

\* a loop with the condition i < timeInterval
LoopTop_Strict(t, events) ==
    IF t.i < t.timeInterval
    THEN IF events[t.user_id] THEN Finish(t, "False", "CANCELLED")
         ELSE IF t.blockchain = "ton"
              THEN [t EXCEPT !.pc = "fetch",
                             !.fetches = Min(@ + 1, MaxCycles)]
              ELSE Finish(t, "ValueError", "RAISED")
    ELSE Finish(t, "False", "EXPIRED")

\* lines 323-326 and 333-341: from the top of the while loop to the next
\* await or to the end of the call
LoopTop(t, events) ==
    IF t.i <= t.timeInterval
    THEN IF IsSet(events, t.user_id) THEN Finish(t, "False", "CANCELLED")
         ELSE IF t.blockchain = "ton"
              THEN [t EXCEPT !.pc = "fetch",
                             !.fetches = Min(@ + 1, MaxCycles)]
              ELSE Finish(t, "ValueError", "RAISED")
    ELSE Finish(t, "False", "EXPIRED")

\* a loop that sleeps before it looks at the page
AfterFetch_SleepFirst(t, fetched) ==
    IF fetched.raised # None THEN Finish(t, fetched.raised, "RAISED")
    ELSE [t EXCEPT !.transactions = fetched.value, !.pc = "sleep"]

\* lines 327-331: the fetch returns, the page is searched for a match
AfterFetch(t, fetched) ==
    IF fetched.raised # None THEN Finish(t, fetched.raised, "RAISED")
    ELSE LET transactions == fetched.value
             fetchedT == [t EXCEPT !.transactions = transactions]
         IN  IF \E k \in 1 .. Len(transactions) :
                    Matches(transactions[k], t.amount, t.memo)
             THEN Finish(fetchedT, "True", "MATCHED")
             ELSE [fetchedT EXCEPT !.pc = "sleep"]

\* lines 331-332: the sleep returns, i += checkTime, back to the loop top
Advance(t) ==
    [t EXCEPT !.i = @ + t.checkTime, !.sleeps = Min(@ + 1, MaxCycles)]

\* a loop that counts cycles instead of seconds: i += 1
AfterSleep_CountCycles(t, events) ==
    LoopTop([t EXCEPT !.i = @ + 1, !.sleeps = Min(@ + 1, MaxCycles)], events)

AfterSleep(t, events) == LoopTop(Advance(t), events)

NoCall == [op |-> "none"]

Init ==
    /\ stop_events = <<>>
    /\ task = [t \in {"t1"} |-> IdleTask]
    /\ last = [op |-> "init", user_id |-> None, task |-> None, status |-> None,
               flag |-> None]
    /\ call = NoCall

\* a call of monitorTransactions, up to its first await (lines 320-327)
monitorTransactions(t, user_id, blockchain, amount, timeInterval, memo, checkTime) ==
    /\ task[t].pc = "idle"
    /\ stop_events' = ClearEvent(stop_events, user_id)
    /\ task' = [x \in DOMAIN task |->
                  IF x = t
                  THEN LoopTop([IdleTask EXCEPT
                                  !.user_id = user_id,
                                  !.blockchain = blockchain,
                                  !.amount = amount,
                                  !.memo = memo,
                                  !.timeInterval = timeInterval,
                                  !.checkTime = checkTime,
                                  !.state = "RUNNING",
                                  !.prior = Flag(stop_events, user_id)],
                               stop_events')
                  ELSE IF /\ task[x].user_id = user_id
                          /\ task[x].pc \in {"fetch", "sleep"}
                       THEN [task[x] EXCEPT !.stopReq = "none"]
                       ELSE task[x]]
    /\ last' = [op |-> "start", user_id |-> user_id, task |-> t,
                status |-> None, flag |-> Flag(stop_events, user_id)]
    /\ UNCHANGED call

\* a call of stop_monitoring (line 279)
stop_monitoring(user_id) ==
    /\ stop_events' = SetEvent(stop_events, user_id)
    /\ task' = [x \in DOMAIN task |->
                  IF /\ task[x].user_id = user_id
                     /\ task[x].pc \in {"fetch", "sleep"}
                  THEN [task[x] EXCEPT
                          !.stopped = TRUE,
                          !.stopReq = IF @ = "none" THEN task[x].pc ELSE @]
                  ELSE task[x]]
    /\ last' = [op |-> "stop", user_id |-> user_id, task |-> None,
                status |-> None, flag |-> Flag(stop_events, user_id)]
    /\ UNCHANGED call

\* the await of line 327 completes with the source's response
FetchReturns(t, response) ==
    /\ task[t].pc = "fetch"
    /\ task' = [task EXCEPT ![t] =
                  AfterFetch([task[t] EXCEPT !.failed =
                                 @ \/ response.status # "ok"],
                             getTonLastTransactions(response))]
    /\ last' = [op |-> "fetch", user_id |-> task[t].user_id, task |-> t,
                status |-> response.status, flag |-> None]
    /\ UNCHANGED <<stop_events, call>>

\* a call that resets its user's event when it returns
SleepReturns_ClearOnExit(t) ==
    /\ task[t].pc = "sleep"
    /\ task' = [task EXCEPT ![t] = AfterSleep(task[t], stop_events)]
    /\ last' = [op |-> "sleep", user_id |-> task[t].user_id, task |-> t,
                status |-> None, flag |-> None]
    /\ stop_events' = IF task'[t].pc = "done"
                      THEN ClearEvent(stop_events, task[t].user_id)
                      ELSE stop_events
    /\ UNCHANGED call

\* the await of line 331 completes
SleepReturns(t) ==
    /\ task[t].pc = "sleep"
    /\ task' = [task EXCEPT ![t] = AfterSleep(task[t], stop_events)]
    /\ last' = [op |-> "sleep", user_id |-> task[t].user_id, task |-> t,
                status |-> None, flag |-> None]
    /\ UNCHANGED <<stop_events, call>>

\* one caller; every argument and every response of the model
Next ==
    \/ \E t \in DOMAIN task :
          /\ task[t].pc = "idle"
          /\ \E user_id \in Users, blockchain \in Blockchains,
                amount \in Amounts, timeInterval \in TimeIntervals,
                memo \in Memos, checkTime \in CheckTimes :
                monitorTransactions(t, user_id, blockchain, amount,
                                    timeInterval, memo, checkTime)
    \/ \E user_id \in Users : stop_monitoring(user_id)
    \/ \E t \in DOMAIN task :
          /\ task[t].pc = "fetch"
          /\ \E response \in Responses : FetchReturns(t, response)
    \/ \E t \in DOMAIN task : SleepReturns(t)

Spec == Init /\ [][Next]_vars

\* the event loop resumes every suspended call: each fetch and each sleep
\* returns
Fairness ==
    \A t \in {"t1"} :
        /\ WF_vars(\E response \in Responses : FetchReturns(t, response))
        /\ WF_vars(SleepReturns(t))

SpecFair == Init /\ [][Next]_vars /\ Fairness

\* concurrent callers; the arguments and responses that decide the
\* interleavings of starts, stops, fetches and sleeps
InitConcurrent ==
    /\ stop_events = <<>>
    /\ task = [t \in Tasks |-> IdleTask]
    /\ last = [op |-> "init", user_id |-> None, task |-> None, status |-> None,
               flag |-> None]
    /\ call = NoCall

\* every fetch succeeds; a page is empty or holds the expected payment
ConcurrentResponses ==
    {r \in Responses :
        /\ r.status = "ok"
        /\ \A k \in 1 .. Len(r.transactions) :
              /\ r.transactions[k].value = 1000000000
              /\ r.transactions[k].comment = None
              /\ r.transactions[k].missing = "none"}

\* the number of cycles is all that timeInterval and checkTime decide, so
\* the callers keep checkTime at 1 and the expected payment at "1" TON
NextConcurrent ==
    \/ \E t \in DOMAIN task :
          /\ task[t].pc = "idle"
          /\ \E user_id \in Users, timeInterval \in 0 .. MaxBudget :
                monitorTransactions(t, user_id, "ton", "1", timeInterval,
                                    None, 1)
    \/ \E user_id \in Users : stop_monitoring(user_id)
    \/ \E t \in DOMAIN task :
          /\ task[t].pc = "fetch"
          /\ \E response \in ConcurrentResponses : FetchReturns(t, response)
    \/ \E t \in DOMAIN task : SleepReturns(t)

SpecConcurrent == InitConcurrent /\ [][NextConcurrent]_vars

(***************************************************************************)
(* Direct calls of the stateless methods: the match test of line 329,      *)
(* scanAPI.convert_amount and scanAPI.getTonLastTransactions, each applied *)
(* to one input of a bounded set.  call records the input and the result;  *)
(* the methods keep no state, so one call per behaviour shows them all.    *)
(***************************************************************************)
InfoRecords ==
    [address : {"EQab", "Unknown address"}, hash : {"h1", "h2"},
     time : {0, 1617181723}, success : BOOLEAN,
     amount : {"1", "1.0", "1.5"}, memo : {None, "x", "y"}]

LedgerIds ==
    {"btc", "BTC", "eth", "Eth", "bnb", "sol", "SOL", "ltc", "matic", "ton",
     "TON", "Ton", "doge", "Doge", "xrp", "XRP", "unknown_ledger", ""}

RawAmounts == {0, 1, 150000000, 1000000000, 1500000000}

CallRawTrxs ==
    [hash : {"h1"}, now : {1617181723}, source : {"0:ab"},
     value : RawValues, comment : Memos, success : {TRUE},
     missing : {"none"} \cup AbortingKeys \cup SkippedKeys]

CallAddressBooks ==
    {<<>>, [a \in {"0:ab"} |-> "EQab"], [a \in {"0:ab"} |-> None]}

CallResponses ==
    [status : {"ok"}, transactions : SeqsUpTo(CallRawTrxs, MaxRecords),
     address_book : CallAddressBooks]
        \cup [status : Statuses \ {"ok"}, transactions : {<<>>},
              address_book : {<<>>}]

\* line 329 applied to one transaction of a page
CallMatches(trx, amount, memo) ==
    /\ call = NoCall
    /\ call' = [op |-> "Matches", trx |-> trx, amount |-> amount,
                memo |-> memo, result |-> Matches(trx, amount, memo)]
    /\ UNCHANGED <<stop_events, task, last>>

CallConvertAmount(amount, blockchain) ==
    /\ call = NoCall
    /\ call' = [op |-> "convert_amount", amount |-> amount,
                blockchain |-> blockchain,
                result |-> convert_amount(amount, blockchain)]
    /\ UNCHANGED <<stop_events, task, last>>

CallGetTonLastTransactions(response) ==
    /\ call = NoCall
    /\ call' = [op |-> "getTonLastTransactions", response |-> response,
                result |-> getTonLastTransactions(response)]
    /\ UNCHANGED <<stop_events, task, last>>

NextCalls ==
    \/ /\ call = NoCall
       /\ \E trx \in InfoRecords, amount \in Amounts, memo \in Memos :
             CallMatches(trx, amount, memo)
    \/ /\ call = NoCall
       /\ \E amount \in RawAmounts, blockchain \in LedgerIds :
             CallConvertAmount(amount, blockchain)
    \/ /\ call = NoCall
       /\ \E response \in CallResponses :
             CallGetTonLastTransactions(response)

SpecCalls == Init /\ [][NextCalls]_vars

(***************************************************************************)
(* Properties                                                              *)
(***************************************************************************)
\* the page holds a transaction with the expected amount and memo
PageHasPayment(page, amount, memo) ==
    \E k \in 1 .. Len(page) :
        /\ page[k].amount = amount
        /\ (memo = None \/ page[k].memo = memo)

Fetched(t) == last'.op = "fetch" /\ last'.task = t
Slept(t) == last'.op = "sleep" /\ last'.task = t
Started(t) == last'.op = "start" /\ last'.task = t

\* C1: a call returns True only when the page it fetched last holds a
\* transaction with the expected amount and, when a memo is expected, the
\* expected memo; a call that ends by cancellation or by expiry returns
\* False.
C1_TrueOnlyOnMatch ==
    \A t \in DOMAIN task :
        /\ task[t].result = "True" =>
              /\ task[t].state = "MATCHED"
              /\ PageHasPayment(task[t].transactions, task[t].amount,
                                task[t].memo)
        /\ task[t].state \in {"CANCELLED", "EXPIRED"} =>
              task[t].result = "False"

C1_Witness ==
    \E t \in DOMAIN task :
        /\ task[t].result = "True"
        /\ task[t].memo = "x"
        /\ task[t].stopped
        /\ task[t].fetches >= 2

\* C2: when a fetch of a running call returns a page that holds the
\* expected payment, the call returns True in that step, without sleeping,
\* without advancing i and without another fetch; a call that has returned
\* takes no further step.
C2_MatchReturnsImmediately ==
    [][\A t \in DOMAIN task :
          /\ (/\ Fetched(t)
              /\ PageHasPayment(task'[t].transactions, task[t].amount,
                                task[t].memo))
             => /\ task'[t].pc = "done"
                /\ task'[t].result = "True"
                /\ task'[t].state = "MATCHED"
                /\ task'[t].i = task[t].i
                /\ task'[t].sleeps = task[t].sleeps
                /\ task'[t].fetches = task[t].fetches
          /\ task[t].pc = "done"
             => /\ task'[t].pc = "done"
                /\ task'[t].result = task[t].result
                /\ task'[t].i = task[t].i
                /\ task'[t].sleeps = task[t].sleeps
                /\ task'[t].fetches = task[t].fetches]_vars

C2_Witness ==
    \E t \in DOMAIN task :
        /\ task[t].state = "MATCHED"
        /\ task[t].i > 0
        /\ Len(task[t].transactions) >= 1
        /\ last.op = "fetch"

Running(t) == task[t].pc \in {"fetch", "sleep"}

\* C3 as stated: a call whose user was stopped while it was running
\* returns False.
C3_StoppedReturnsFalse ==
    \A t \in DOMAIN task :
        (task[t].pc = "done" /\ task[t].stopped) => task[t].result = "False"

\* C3 as amended: a call stopped while it was running, whose flag no later
\* start of the same user cleared, starts no fetch after a stop that came
\* during its sleep, and returns False unless the fetch in flight at the
\* stop returned a page with the payment, in which case it returns True.
C3_StoppedReturnsFalseUnlessInFlightMatch ==
    \A t \in DOMAIN task :
        /\ task[t].stopReq = "sleep" => task[t].pc \in {"sleep", "done"}
        /\ (task[t].pc = "done" /\ task[t].stopReq = "sleep")
              => task[t].result = "False"
        /\ (task[t].pc = "done" /\ task[t].stopReq = "fetch")
              => \/ task[t].result = "False"
                 \/ /\ task[t].result = "True"
                    /\ PageHasPayment(task[t].transactions, task[t].amount,
                                      task[t].memo)

C3_Witness ==
    \E t \in DOMAIN task :
        /\ task[t].state = "CANCELLED"
        /\ task[t].stopReq = "fetch"
        /\ task[t].fetches = 2

\* C4: a "ton" call with timeInterval >= 0 and checkTime > 0 has i equal
\* to checkTime times the number of its completed sleeps, is suspended (in
\* the fetch or the sleep of cycle number sleeps + 1) only while
\* i <= timeInterval, and ends by expiry only with i > timeInterval, after
\* exactly timeInterval \div checkTime + 1 fetches, each followed by one
\* sleep, returning False.
C4_ExpiryAfterAllCycles ==
    \A t \in DOMAIN task :
        (/\ task[t].state # "IDLE"
         /\ task[t].blockchain = "ton"
         /\ task[t].timeInterval >= 0
         /\ task[t].checkTime > 0)
        => /\ task[t].i = task[t].checkTime * task[t].sleeps
           /\ Running(t) =>
                 /\ task[t].i <= task[t].timeInterval
                 /\ task[t].fetches = task[t].sleeps + 1
           /\ task[t].state = "EXPIRED" =>
                 /\ task[t].result = "False"
                 /\ task[t].i > task[t].timeInterval
                 /\ task[t].fetches =
                       (task[t].timeInterval \div task[t].checkTime) + 1
                 /\ task[t].sleeps = task[t].fetches

C4_Witness ==
    \E t \in DOMAIN task :
        /\ task[t].state = "EXPIRED"
        /\ task[t].timeInterval = 3
        /\ task[t].checkTime = 2
        /\ task[t].fetches = 2
        /\ ~task[t].stopped

\* C5: a start or a stop of one user leaves the event of every other user
\* and the calls of every other user as they were, and a call ends by
\* cancellation only if stop_monitoring was called for its own user while
\* it was running.
C5_UsersDoNotInterfere ==
    [][/\ \A b \in Users :
             (last'.op \in {"start", "stop"} /\ last'.user_id # b)
             => /\ Flag(stop_events', b) = Flag(stop_events, b)
                /\ \A t \in DOMAIN task :
                      task[t].user_id = b => task'[t] = task[t]
       /\ \A t \in DOMAIN task :
             task'[t].state = "CANCELLED" => task'[t].stopped]_vars

C5_Witness ==
    \E a, b \in DOMAIN task :
        /\ task[a].user_id = "A" /\ task[b].user_id = "B"
        /\ task[a].state = "CANCELLED"
        /\ task[b].pc = "fetch" /\ task[b].fetches >= 2
        /\ Flag(stop_events, "B") = "clear"
        /\ Flag(stop_events, "A") = "set"

\* C6: a start for a user one of whose earlier calls ended by cancellation
\* clears the user's event and reaches its first fetch; a call that no stop
\* reached while it was running ends only by match or expiry.
C6_StartAfterCancelIsFresh ==
    [][\A t \in DOMAIN task :
          /\ (/\ Started(t)
              /\ \E s \in DOMAIN task :
                    /\ task[s].user_id = last'.user_id
                    /\ task[s].state = "CANCELLED")
             => /\ Flag(stop_events, last'.user_id) = "set"
                /\ Flag(stop_events', last'.user_id) = "clear"
                /\ task'[t].pc = "fetch"
                /\ task'[t].state = "RUNNING"
          /\ (task'[t].pc = "done" /\ ~task'[t].stopped)
             => task'[t].state \in {"MATCHED", "EXPIRED"}]_vars

C6_Witness ==
    \E s, t \in DOMAIN task :
        /\ s # t
        /\ task[s].user_id = task[t].user_id
        /\ task[s].state = "CANCELLED"
        /\ task[t].prior = "set"
        /\ task[t].state = "EXPIRED"
        /\ task[t].fetches >= 2
        /\ ~task[t].stopped
        /\ Flag(stop_events, task[t].user_id) = "clear"

\* C7: a call that found its user's event set when it started, by a stop
\* that came while the user had no running call, is not cancelled by it:
\* whenever a call ends by cancellation, a stop for its user arrived after
\* the call started and no later start cleared it.
C7_StopWithoutSessionHasNoEffect ==
    \A t \in DOMAIN task :
        /\ task[t].state = "CANCELLED" => task[t].stopReq # "none"
        /\ (task[t].state # "IDLE" /\ task[t].stopReq = "none" /\ ~task[t].stopped)
              => task[t].state \in {"RUNNING", "MATCHED", "EXPIRED"}

C7_Witness ==
    \E t \in DOMAIN task :
        /\ task[t].prior = "set"
        /\ \A s \in DOMAIN task : s # t => task[s].state = "IDLE"
        /\ task[t].state = "EXPIRED"
        /\ task[t].fetches >= 2
        /\ ~task[t].stopped

\* C8 as stated: a call for a blockchain other than "ton" raises ValueError
\* and performs no fetch and no sleep, whatever its other arguments.
C8_UnsupportedLedgerRaises ==
    \A t \in DOMAIN task :
        (task[t].state # "IDLE" /\ task[t].blockchain # "ton")
        => /\ task[t].result = "ValueError"
           /\ task[t].fetches = 0
           /\ task[t].sleeps = 0

\* C9: a sleep that ends with i + checkTime = timeInterval and a clear
\* event is followed by a fetch at i = timeInterval, and a page with the
\* payment fetched at i = timeInterval makes the call return True.
C9_BoundaryCycleIncluded ==
    [][\A t \in DOMAIN task :
          /\ (/\ Slept(t)
              /\ task[t].i + task[t].checkTime = task[t].timeInterval
              /\ Flag(stop_events, task[t].user_id) = "clear")
             => /\ task'[t].pc = "fetch"
                /\ task'[t].i = task[t].timeInterval
          /\ (/\ Fetched(t)
              /\ task[t].i = task[t].timeInterval
              /\ PageHasPayment(task'[t].transactions, task[t].amount,
                                task[t].memo))
             => task'[t].result = "True"]_vars

C9_Witness ==
    \E t \in DOMAIN task :
        /\ task[t].state = "MATCHED"
        /\ task[t].timeInterval = 2
        /\ task[t].checkTime = 1
        /\ task[t].i = 2
        /\ task[t].fetches = 3
        /\ task[t].amount = "1"
        /\ task[t].memo = None
        /\ task[t].transactions[1].memo = "x"

C11_MatchPredicate ==
    call.op = "Matches" =>
        (call.result <=>
            /\ call.trx.amount = call.amount
            /\ (call.memo = None \/ call.trx.memo = call.memo))

C11_Witness ==
    /\ call.op = "Matches"
    /\ call.result
    /\ ~call.trx.success
    /\ call.memo = "x"
    /\ call.trx.address = "Unknown address"

\* C12 as stated: a "ton" call with timeInterval >= 0 and checkTime >= 0,
\* whose fetches and sleeps all return, eventually returns.
C12_EveryCallReturns ==
    \A t \in {"t1"} :
        (task[t].state = "RUNNING" /\ task[t].timeInterval >= 0
            /\ task[t].checkTime >= 0)
        ~> (task[t].pc = "done")

\* C13: stop_monitoring can be called in every state; it leaves the user's
\* event set and every other user's event as it was, and a call that finds
\* the event already set (a second call in a row) changes nothing in the
\* registry; it ends no call of monitorTransactions by itself.
C13_StopIdempotent ==
    /\ [](\A u \in Users : ENABLED stop_monitoring(u))
    /\ [][last'.op = "stop" =>
             /\ Flag(stop_events', last'.user_id) = "set"
             /\ \A u \in Users \ {last'.user_id} :
                   Flag(stop_events', u) = Flag(stop_events, u)
             /\ Flag(stop_events, last'.user_id) = "set"
                   => stop_events' = stop_events
             /\ \A t \in DOMAIN task :
                   /\ task'[t].pc = task[t].pc
                   /\ task'[t].result = task[t].result]_vars

C13_Witness ==
    /\ last.op = "stop"
    /\ last.flag = "set"
    /\ \E t \in DOMAIN task :
          task[t].user_id = last.user_id /\ Running(t)
    /\ \E u \in Users : Flag(stop_events, u) = "absent"

\* the canonical amount of the raw values of the model
AmountString(value) == IF value = 1000000000 THEN "1" ELSE "1.5"

\* C14 as stated: from a page that arrives, getTonLastTransactions returns
\* the records that lack no key, in the order of the page, whatever the
\* other records of the page lack.
C14_MalformedRecordsSkipped ==
    (call.op = "getTonLastTransactions" /\ call.response.status = "ok") =>
        LET wellFormed == SelectSeq(call.response.transactions,
                                    LAMBDA trx : trx.missing = "none")
            info == call.result.value
        IN  /\ call.result.raised = None
            /\ Len(info) = Len(wellFormed)
            /\ \A k \in 1 .. Len(wellFormed) :
                  /\ info[k].hash = wellFormed[k].hash
                  /\ info[k].amount = AmountString(wellFormed[k].value)
                  /\ info[k].memo = wellFormed[k].comment

\* the identifiers of the model whose lower case is a key of decimals_map
SupportedIds ==
    {"btc", "BTC", "eth", "Eth", "bnb", "sol", "SOL", "ltc", "matic", "ton",
     "TON", "Ton", "doge", "Doge"}

\* C15: convert_amount raises ValueError for an identifier whose lower case
\* is not in the decimals mapping, whatever the amount, zero included, and
\* returns "0" for the amount 0 and a supported identifier in any case.
C15_ZeroAndUnknownLedger ==
    call.op = "convert_amount" =>
        /\ call.blockchain \notin SupportedIds
              => call.result = Raise("ValueError")
        /\ (call.blockchain \in SupportedIds /\ call.amount = 0)
              => call.result = Return("0")

C15_Witness ==
    /\ call.op = "convert_amount"
    /\ call.amount = 0
    /\ call.blockchain = "XRP"
    /\ call.result.raised = "ValueError"

\* C16: while a stop that reached a running call is pending (no later
\* start of the user has cleared the event), the call starts no fetch: the
\* fetch in flight may return and lead to the sleep or to a match, and the
\* return of its sleep ends the call with False, by cancellation when
\* i <= timeInterval and by expiry otherwise.
C16_CancelledAtNextCycleBoundary ==
    [][\A t \in DOMAIN task :
          (Running(t) /\ task[t].stopReq # "none")
          => /\ task'[t].fetches = task[t].fetches
             /\ Fetched(t) => task'[t].pc \in {"sleep", "done"}
             /\ Slept(t) =>
                   /\ task'[t].pc = "done"
                   /\ task'[t].result = "False"
                   /\ task'[t].state =
                         IF task'[t].i <= task[t].timeInterval
                         THEN "CANCELLED" ELSE "EXPIRED"]_vars

C16_Witness ==
    \E t \in DOMAIN task :
        /\ task[t].state = "CANCELLED"
        /\ task[t].stopReq = "sleep"
        /\ task[t].fetches = 2
        /\ task[t].i < task[t].timeInterval
        /\ last.op = "sleep" /\ last.task = t

\* C17: a start for a user who has a running call is not rejected: it
\* reaches its first fetch, clears the user's event, and leaves the running
\* call suspended where it was with no stop pending; a sleep that returns
\* with the event clear and i + checkTime <= timeInterval goes on to the
\* next fetch.
C17_StartResetsSharedSignal ==
    [][\A s, t \in DOMAIN task :
          /\ (/\ Started(t)
              /\ s # t
              /\ task[s].user_id = last'.user_id
              /\ Running(s))
             => /\ task'[t].pc = "fetch"
                /\ Flag(stop_events', last'.user_id) = "clear"
                /\ task'[s] = [task[s] EXCEPT !.stopReq = "none"]
          /\ (/\ Slept(s)
              /\ Flag(stop_events, task[s].user_id) = "clear"
              /\ task[s].i + task[s].checkTime <= task[s].timeInterval)
             => task'[s].pc = "fetch"]_vars

C17_Witness ==
    \E s, t \in DOMAIN task :
        /\ s # t
        /\ task[s].user_id = task[t].user_id
        /\ last.op = "sleep" /\ last.task = s
        /\ task[s].pc = "fetch"
        /\ task[s].stopped
        /\ task[t].prior = "set"
        /\ Running(t)
        /\ ~task[t].stopped

\* C18: a user's event goes from set to clear only in the first step of a
\* monitorTransactions call for that user, and becomes set only in a
\* stop_monitoring call for that user; the return of a fetch or of a sleep,
\* whatever it makes of the call, leaves the registry as it was.
C18_OnlySetAndClearAtStart ==
    [][/\ \A u \in Users :
             Flag(stop_events', u) # Flag(stop_events, u)
             => /\ last'.user_id = u
                /\ \/ last'.op = "start" /\ Flag(stop_events', u) = "clear"
                   \/ last'.op = "stop" /\ Flag(stop_events', u) = "set"
       /\ last'.op \in {"fetch", "sleep"} => stop_events' = stop_events]_vars

C18_Witness ==
    \E t \in DOMAIN task :
        /\ task[t].state = "CANCELLED"
        /\ task[t].prior = "set"
        /\ last.op = "sleep" /\ last.task = t
        /\ Flag(stop_events, task[t].user_id) = "set"

\* C19: the registry is empty at first, gains exactly the user of each
\* start and each stop, and never loses a key; a call that ends by
\* cancellation leaves its user's event set, and the event stays set in
\* every step that is not a start for that user.
C19_EntriesNeverRemoved ==
    [][/\ last.op = "init" => DOMAIN stop_events = {}
       /\ DOMAIN stop_events' =
             DOMAIN stop_events \cup
                (IF last'.op \in {"start", "stop"} THEN {last'.user_id}
                 ELSE {})
       /\ \A t \in DOMAIN task :
             /\ (task[t].state # "CANCELLED" /\ task'[t].state = "CANCELLED")
                => Flag(stop_events', task'[t].user_id) = "set"
             /\ (/\ task[t].state = "CANCELLED"
                 /\ Flag(stop_events, task[t].user_id) = "set"
                 /\ ~(last'.op = "start" /\ last'.user_id = task[t].user_id))
                => Flag(stop_events', task[t].user_id) = "set"]_vars

C19_Witness ==
    /\ DOMAIN stop_events = Users
    /\ last.op = "stop" /\ last.flag = "absent"
    /\ \E t \in DOMAIN task :
          /\ task[t].state = "CANCELLED"
          /\ task[t].user_id # last.user_id
          /\ Flag(stop_events, task[t].user_id) = "set"

\* C20: a call that observes a set event does not consume it: the event is
\* still set after the call ended by cancellation, every other running call
\* of the user still has the stop pending, and each of them whose sleep
\* returns with i + checkTime <= timeInterval ends by cancellation too.
C20_OneStopCancelsEverySession ==
    [][\A s, t \in DOMAIN task :
          /\ (/\ task[t].state # "CANCELLED"
              /\ task'[t].state = "CANCELLED"
              /\ s # t
              /\ task[s].user_id = task[t].user_id
              /\ Running(s))
             => /\ Flag(stop_events', task[t].user_id) = "set"
                /\ task'[s].stopReq # "none"
                /\ task'[s] = task[s]
          /\ (/\ Slept(s)
              /\ task[s].stopReq # "none"
              /\ task[s].i + task[s].checkTime <= task[s].timeInterval)
             => /\ task'[s].state = "CANCELLED"
                /\ task'[s].result = "False"]_vars

C20_Witness ==
    \E s, t \in DOMAIN task :
        /\ s # t
        /\ task[s].user_id = task[t].user_id
        /\ task[s].state = "CANCELLED" /\ task[t].state = "CANCELLED"
        /\ task[s].stopReq = "fetch" /\ task[t].stopReq = "sleep"
        /\ task[s].i < task[s].timeInterval
        /\ task[t].i < task[t].timeInterval

====
